---- MODULE Spec2Model ----
(***************************************************************************)
(* Model of oct_converter/readers/e2e.py: the reader E2E of Heidelberg     *)
(* .e2e containers.  One call of E2E.read_oct_volume is a state machine    *)
(* over the reader's fields and the locals of the call; the container it   *)
(* reads is an input.  E2E.read_custom_float is a pure function, modelled  *)
(* on bit strings as the code computes it.                                 *)
(*                                                                         *)
(* The container.  The directory part of the file (the `prev` link and the *)
(* `num_entries` of a directory block, every directory entry) is read by   *)
(* the code exactly once per block in a terminating pass, so each such     *)
(* read draws its value when the code performs it; a directory block that  *)
(* the chain walk reads a second time (a cycle) yields the link it yielded *)
(* the first time.  The chunk part of the file is read several times (the  *)
(* pre-pass and the dispatch pass of the "Fundus Autofluorescence" mode, a *)
(* chunk that two directory entries point at), so it is fixed content:     *)
(* ChunkFile, one chunk per offset.                                        *)
(*                                                                         *)
(* Numbers.  chunk.slice_id / 2 is Python 3 true division, a float with a  *)
(* possible half.  volume_dict keeps such values; the model keeps them     *)
(* doubled (an integer number of halves), so 3 / 2 is kept as 3 and the    *)
(* raw slice_id 3 of the other mode as 6.  int(x) truncates towards zero.  *)
(***************************************************************************)
EXTENDS Integers, Sequences, FiniteSets, TLC

(* ------------------------------ bounds -------------------------------- *)
\* number of directory block offsets a `current`/`prev` link can name
NBlocks == 2
\* cap on the length of directory_stack (the walk of a cyclic chain never ends)
MaxChain == 3
\* largest num_entries of a directory block
MaxEntries == 2
\* largest number of live directory entries in a container
MaxLive == 3

(* ------------------------- program constants -------------------------- *)
ImageType == 1073741824
LateralityType == 11
ByteR == 82
ByteL == 76
ExponentBias == 63
MantissaBits == 10

FAF == "Fundus Autofluorescence"
ImageTypes == {"", FAF}

(* --------------------------- the chunk file --------------------------- *)
\* chunk_structure, followed by what the code reads after the header: for an
\* image chunk the width and height of image_structure and the number of
\* pixel bytes the file still holds (avail), for a laterality chunk the
\* laterality byte of lat_structure.
Chunk(series, slice, ind, type, lat, w, h, avail) ==
    [patient_id |-> 1, study_id |-> 1, series_id |-> series, slice_id |-> slice,
     ind |-> ind, type |-> type, laterality |-> lat,
     width |-> w, height |-> h, avail |-> avail]

ChunkFile ==
    << Chunk(1, 2, 1, ImageType, 0, 2, 1, 4),       \* 1  B-scan, slice 2, 2 x 1
       Chunk(1, 4, 1, ImageType, 0, 3, 1, 6),       \* 2  B-scan, slice 4, 3 x 1
       Chunk(1, 2, 0, ImageType, 0, 2, 1, 2),       \* 3  fundus image, slice 2
       Chunk(2, 0, 0, ImageType, 0, 2, 1, 2),       \* 4  fundus image, slice 0
       Chunk(2, 3, 1, ImageType, 0, 2, 1, 4),       \* 5  B-scan, odd slice 3
       Chunk(2, -2, 1, ImageType, 0, 2, 1, 4),      \* 6  B-scan, slice -2
       Chunk(1, 2, 0, ImageType, 0, 2, 1, 1),       \* 7  fundus image, cut short
       Chunk(1, 4, 1, ImageType, 0, 2, 1, 3),       \* 8  B-scan, cut short
       Chunk(1, 2, 2, ImageType, 0, 2, 1, 4),       \* 9  image chunk, ind 2
       Chunk(1, 2, 0, LateralityType, ByteR, 0, 0, 0),  \* 10 laterality 'R'
       Chunk(1, 2, 0, LateralityType, ByteL, 0, 0, 0),  \* 11 laterality 'L'
       Chunk(1, 2, 0, LateralityType, 0, 0, 0, 0) >>    \* 12 laterality, other byte

ChunkOffsets == 1..Len(ChunkFile)

\* slice_id values of directory entries
EntrySliceIds == {0, 2, 4}

\* offsets that superseded directory entries point at
StaleStarts == {3, 4}

\* sub_directory_structure: an entry that points at offset s.  An entry names
\* the volume of the chunk it points at; its slice_id is its own.
Entry(p, s, sl) ==
    [pos |-> p, start |-> s, size |-> 80 + ChunkFile[s].avail,
     patient_id |-> ChunkFile[s].patient_id, study_id |-> ChunkFile[s].study_id,
     series_id |-> ChunkFile[s].series_id, slice_id |-> sl]

\* the entries a directory block can hold: pos just below start, or pos = start
Entries ==
    {Entry(s - 1, s, sl) : s \in ChunkOffsets, sl \in EntrySliceIds}
    \cup {Entry(s, s, sl) : s \in StaleStarts, sl \in EntrySliceIds}

(* ------------------------------ helpers ------------------------------- *)
\* '{}_{}_{}'.format(patient_id, study_id, series_id): one string per triple
VolumeString(c) == <<c.patient_id, c.study_id, c.series_id>>

\* int(x / 2): Python's int() truncates towards zero
IntHalf(x) == IF x >= 0 THEN x \div 2 ELSE -((-x) \div 2)

\* A Python dict, in insertion order: a sequence of <<key, value>>.
Keys(d) == {d[i][1] : i \in 1..Len(d)}
Get(d, k) == d[CHOOSE i \in 1..Len(d) : d[i][1] = k][2]
Put(d, k, v) ==
    IF k \in Keys(d)
    THEN [i \in 1..Len(d) |-> IF d[i][1] = k THEN <<k, v>> ELSE d[i]]
    ELSE Append(d, <<k, v>>)

\* the placeholder 0 of a slice array, a decoded raster, and the
\* (laterality, raster) pair of a fundus image
Placeholder == [kind |-> "placeholder", lat |-> "None", src |-> 0, rows |-> 0]
Raster(kind, src, rows) == [kind |-> kind, lat |-> "None", src |-> src, rows |-> rows]
Pair(lat, image) == [kind |-> "pair", lat |-> lat, src |-> image.src, rows |-> image.rows]

\* list[idx] = v of Python: idx in -len .. len - 1, a negative idx counts from
\* the end; any other idx raises IndexError
IndexOK(array, idx) == -Len(array) <= idx /\ idx < Len(array)
ListSet(array, idx, v) ==
    [array EXCEPT ![IF idx >= 0 THEN idx + 1 ELSE Len(array) + idx + 1] = v]

(* ------------------------------- state -------------------------------- *)
VARIABLES
    imagetype,          \* self.imagetype
    laterality,         \* self.laterality
    pc,                 \* the loop of read_oct_volume the call is in
    outcome,            \* how the call ended
    current,            \* the offset the chain walk reads next
    directory_stack,    \* offsets of the directory blocks, as discovered
    position,           \* index in directory_stack of the block being read
    num_entries,        \* directory_chunk.num_entries of that block
    ii,                 \* entries of that block read so far
    chunk,              \* the record parsed last (a directory entry, a chunk)
    chunk_stack,        \* [start, size] of the live chunks
    volume_dict,        \* volume key -> number of slices (doubled)
    volume_array_dict,  \* volume key -> slice array
    fundus_images,      \* the reference images
    numfun,             \* fundus images stored so far
    ci,                 \* index in chunk_stack of the chunk being read
    oct_volumes,        \* the assembled output
    ai,                 \* index in volume_array_dict of the volume assembled
    log,                \* what was printed or logged as a warning
    bytes,              \* read_custom_float: the two bytes
    decimal_value       \* read_custom_float: the value returned

vars == <<imagetype, laterality, pc, outcome, current, directory_stack, position,
          num_entries, ii, chunk, chunk_stack, volume_dict, volume_array_dict,
          fundus_images, numfun, ci, oct_volumes, ai, log, bytes, decimal_value>>

floatVars == <<bytes, decimal_value>>
selfVars == <<imagetype, laterality>>
walkVars == <<current, directory_stack>>
indexVars == <<position, num_entries, ii, chunk_stack, volume_dict>>
dispatchVars == <<volume_array_dict, fundus_images, numfun>>
assembleVars == <<oct_volumes, ai>>

NoChunk == [start |-> 0, pos |-> 0, size |-> 0, patient_id |-> 0, study_id |-> 0,
            series_id |-> 0, slice_id |-> 0]

\* E2E.__init__ and the first lines of read_oct_volume: the header and the
\* main directory are read, `current` is main_directory.current
Init ==
    /\ imagetype \in ImageTypes
    /\ laterality = "None"
    /\ pc = "walk"
    /\ outcome = "running"
    /\ current \in 0..NBlocks
    /\ directory_stack = <<>>
    /\ position = 1
    /\ num_entries = 0
    /\ ii = 0
    /\ chunk = NoChunk
    /\ chunk_stack = <<>>
    /\ volume_dict = <<>>
    /\ volume_array_dict = <<>>
    /\ fundus_images = <<>>
    /\ numfun = 0
    /\ ci = 1
    /\ oct_volumes = <<>>
    /\ ai = 1
    /\ log = <<>>
    /\ bytes = <<0, 0>>
    /\ decimal_value = [mantissa_sum |-> 0, exponent_sum |-> 0]

(* ----------------------- directory chain walk ------------------------- *)
\* directory_chunk.prev of the block at `offset`: what the file holds there.
\* A block read before holds what it held then: the offset recorded after it.
PrevAt(offset) ==
    IF \E i \in 1..Len(directory_stack) : directory_stack[i] = offset
    THEN LET i == CHOOSE j \in 1..Len(directory_stack) : directory_stack[j] = offset
         IN {Append(directory_stack, current)[i + 1]}
    ELSE 0..NBlocks

\* while current != 0: one iteration
Walk ==
    /\ pc = "walk"
    /\ current # 0
    /\ Len(directory_stack) < MaxChain
    /\ \E prev \in PrevAt(current) :
          /\ directory_stack' = Append(directory_stack, current)
          /\ current' = prev
    /\ UNCHANGED <<pc, outcome, selfVars, indexVars, chunk, dispatchVars, ci,
                   assembleVars, log, floatVars>>

\* the loop ends at current == 0
WalkDone ==
    /\ pc = "walk"
    /\ current = 0
    /\ pc' = "index"
    /\ position' = 1
    /\ UNCHANGED <<outcome, selfVars, walkVars, num_entries, ii, chunk, chunk_stack,
                   volume_dict, dispatchVars, ci, assembleVars, log, floatVars>>

(* --------------------------- chunk index ------------------------------ *)
\* A variant of the comparison of line 140 that also accepts start = pos;
\* C9_ChunkStack tells the two apart.
IsLive_or_equal(entry) == entry.start >= entry.pos

\* chunk.start > chunk.pos
IsLive(entry) == entry.start > entry.pos

\* lines 135-139: the slice count of the entry's volume (doubled)
IndexVolumeDict(dict, entry) ==
    LET volume_string == VolumeString(entry) IN
    IF volume_string \notin Keys(dict) THEN Put(dict, volume_string, entry.slice_id)
    ELSE IF entry.slice_id > Get(dict, volume_string)
         THEN Put(dict, volume_string, entry.slice_id)
         ELSE dict

\* lines 132-133 and 140-141
IndexChunkStack(stack, entry) ==
    IF IsLive(entry) THEN Append(stack, <<entry.start, entry.size>>) ELSE stack

\* for position in directory_stack: the block is read again
IndexBlock ==
    /\ pc = "index"
    /\ position <= Len(directory_stack)
    /\ \E n \in 0..MaxEntries : num_entries' = n
    /\ ii' = 0
    /\ pc' = "entries"
    /\ UNCHANGED <<outcome, selfVars, walkVars, position, chunk, chunk_stack,
                   volume_dict, dispatchVars, ci, assembleVars, log, floatVars>>

\* for ii in range(directory_chunk.num_entries): one directory entry
IndexEntry ==
    /\ pc = "entries"
    /\ ii < num_entries
    /\ \E entry \in Entries :
          /\ IsLive(entry) => Len(chunk_stack) < MaxLive
          /\ chunk' = entry
          /\ chunk_stack' = IndexChunkStack(chunk_stack, entry)
          /\ volume_dict' = IF imagetype = FAF THEN volume_dict
                            ELSE IndexVolumeDict(volume_dict, entry)
    /\ ii' = ii + 1
    /\ UNCHANGED <<pc, outcome, selfVars, walkVars, position, num_entries,
                   dispatchVars, ci, assembleVars, log, floatVars>>

\* the entries of the block are exhausted.  num_entries, ii and chunk are dead
\* here (each is assigned before the code reads it again) and are cleared.
BlockDone ==
    /\ pc = "entries"
    /\ ii = num_entries
    /\ position' = position + 1
    /\ pc' = "index"
    /\ num_entries' = 0
    /\ ii' = 0
    /\ chunk' = NoChunk
    /\ UNCHANGED <<outcome, selfVars, walkVars, chunk_stack,
                   volume_dict, dispatchVars, ci, assembleVars, log, floatVars>>

\* directory_stack is exhausted
IndexDone ==
    /\ pc = "index"
    /\ position > Len(directory_stack)
    /\ pc' = IF imagetype = FAF THEN "prepass" ELSE "arrays"
    /\ ci' = 1
    /\ UNCHANGED <<outcome, selfVars, walkVars, indexVars, chunk, dispatchVars,
                   assembleVars, log, floatVars>>

(* ------------- pre-pass of the "Fundus Autofluorescence" mode --------- *)
\* lines 148-152: the raw slice_id is kept (doubled: 2 * slice_id), and
\* compared with slice_id / 2
PrepassVolumeDict(dict, c) ==
    LET volume_string == VolumeString(c) IN
    IF volume_string \notin Keys(dict) THEN Put(dict, volume_string, 2 * c.slice_id)
    ELSE IF c.slice_id > Get(dict, volume_string)
         THEN Put(dict, volume_string, 2 * c.slice_id)
         ELSE dict

\* for start, pos in chunk_stack (line 144): one chunk header
Prepass ==
    /\ pc = "prepass"
    /\ ci <= Len(chunk_stack)
    /\ chunk' = ChunkFile[chunk_stack[ci][1]]
    /\ volume_dict' = PrepassVolumeDict(volume_dict, chunk')
    /\ ci' = ci + 1
    /\ UNCHANGED <<pc, outcome, selfVars, walkVars, position, num_entries, ii,
                   chunk_stack, dispatchVars, assembleVars, log, floatVars>>

PrepassDone ==
    /\ pc = "prepass"
    /\ ci > Len(chunk_stack)
    /\ pc' = "arrays"
    /\ UNCHANGED <<outcome, selfVars, walkVars, indexVars, chunk, dispatchVars, ci,
                   assembleVars, log, floatVars>>

(* ------------------------- the slice arrays --------------------------- *)
\* [0] * int(num_slices)
Placeholders(n) == [i \in 1..n |-> Placeholder]

\* lines 156-161 and 165-167: the array of one volume, <<>> when it gets none
ArrayFor(mode, volume, num_slices) ==
    IF mode = FAF /\ num_slices = 0 THEN << <<volume, Placeholders(1)>> >>
    ELSE IF num_slices > 0 THEN << <<volume, Placeholders(IntHalf(num_slices))>> >>
    ELSE <<>>

RECURSIVE ArraysFrom(_, _, _)
ArraysFrom(mode, dict, i) ==
    IF i > Len(dict) THEN <<>>
    ELSE ArrayFor(mode, dict[i][1], dict[i][2]) \o ArraysFrom(mode, dict, i + 1)

\* volume_array_dict is initialised; fundus_images = {}, numfun = 0
InitArrays ==
    /\ pc = "arrays"
    /\ volume_array_dict' = ArraysFrom(imagetype, volume_dict, 1)
    /\ fundus_images' = <<>>
    /\ numfun' = 0
    /\ ci' = 1
    /\ pc' = "dispatch"
    /\ UNCHANGED <<outcome, selfVars, walkVars, indexVars, chunk, assembleVars, log,
                   floatVars>>

(* --------------------------- chunk dispatch --------------------------- *)
\* lines 181-184: the laterality after a laterality chunk with byte `byte`
NewLaterality(old, byte) ==
    IF byte = ByteR THEN "R" ELSE IF byte = ByteL THEN "L" ELSE old

\* A variant of lines 209-212 that tags three images Right instead of two;
\* C10_CountingKnownFundus tells the two apart.
FundusLaterality_off_by_one(n) == IF n <= 2 THEN "R" ELSE "L"

\* lines 209-212: the laterality of the next fundus image stored
FundusLaterality(n) == IF n < 2 THEN "R" ELSE "L"

\* int(chunk.slice_id / 2) - 1
SliceIndex(slice_id) == IntHalf(slice_id) - 1

\* the chunk the dispatch loop is at
Here == ChunkFile[chunk_stack[ci][1]]

\* the pixel reads of a fundus image (1 byte each) run past the end
FundusCutShort(c) == c.avail < c.height * c.width
\* the pixel reads of a B-scan (2 bytes each) run past the end
OctCutShort(c) == c.avail < 2 * c.height * c.width

AtChunk == pc = "dispatch" /\ ci <= Len(chunk_stack)

\* the call ends inside the dispatch loop
Leave(how, said) ==
    /\ outcome' = how
    /\ pc' = "done"
    /\ log' = log \o said
    /\ UNCHANGED ci

\* the iteration ends, the loop goes on
Proceed(said) ==
    /\ ci' = ci + 1
    /\ log' = log \o said
    /\ UNCHANGED <<pc, outcome>>

\* lines 220-224 and 232-235: the slot of the volume is assigned
Place(arrays, c, v) ==
    Put(arrays, VolumeString(c),
        ListSet(Get(arrays, VolumeString(c)), SliceIndex(c.slice_id), v))

Placeable(c) == IndexOK(Get(volume_array_dict, VolumeString(c)), SliceIndex(c.slice_id))

FailedToSave(c) == << <<"Failed to save image data for volume", VolumeString(c)>> >>

\* chunk.type == 11 in the "Fundus Autofluorescence" mode
DispatchLaterality ==
    /\ AtChunk
    /\ imagetype = FAF
    /\ Here.type = LateralityType
    /\ chunk' = Here
    /\ laterality' = NewLaterality(laterality, Here.laterality)
    /\ Proceed(<<>>)
    /\ UNCHANGED <<imagetype, walkVars, indexVars, dispatchVars, assembleVars,
                   floatVars>>

\* chunk.type == 1073741824 and chunk.ind == 0
DispatchFundus ==
    /\ AtChunk
    /\ Here.type = ImageType
    /\ Here.ind = 0
    /\ chunk' = Here
    /\ LET c == Here
           image == Raster("fundus", chunk_stack[ci][1], c.height)
           known == VolumeString(c) \in Keys(volume_array_dict)
           lat == IF known THEN FundusLaterality(numfun) ELSE laterality
       IN
       IF FundusCutShort(c) \/ imagetype = FAF
       THEN \* struct.error, or AttributeError of fundus_images.append:
            \* print and return fundus_images
            /\ Leave("returned fundus_images", << <<"error", VolumeString(c)>> >>)
            /\ UNCHANGED <<laterality, dispatchVars>>
       ELSE /\ laterality' = lat
            /\ fundus_images' = IF known
                                THEN Put(fundus_images, VolumeString(c), Pair(lat, image))
                                ELSE fundus_images
            /\ numfun' = IF known THEN numfun + 1 ELSE numfun
            /\ IF ~known
               THEN Proceed(FailedToSave(c)) /\ UNCHANGED volume_array_dict
               ELSE IF Placeable(c)
               THEN /\ volume_array_dict' = Place(volume_array_dict, c, Pair(lat, image))
                    /\ Proceed(<<>>)
               ELSE Leave("IndexError", <<>>) /\ UNCHANGED volume_array_dict
    /\ UNCHANGED <<imagetype, walkVars, indexVars, assembleVars, floatVars>>

\* chunk.type == 1073741824 and chunk.ind == 1
DispatchOct ==
    /\ AtChunk
    /\ Here.type = ImageType
    /\ Here.ind = 1
    /\ chunk' = Here
    /\ LET c == Here
           image == Raster("oct", chunk_stack[ci][1], c.width)
           known == VolumeString(c) \in Keys(volume_array_dict)
       IN
       IF OctCutShort(c)
       THEN \* read_custom_float indexes bytes it did not get
            Leave("IndexError", <<>>) /\ UNCHANGED volume_array_dict
       ELSE IF ~known
       THEN Proceed(FailedToSave(c)) /\ UNCHANGED volume_array_dict
       ELSE IF Placeable(c)
       THEN /\ volume_array_dict' = Place(volume_array_dict, c, image)
            /\ Proceed(<<>>)
       ELSE Leave("IndexError", <<>>) /\ UNCHANGED volume_array_dict
    /\ UNCHANGED <<selfVars, walkVars, indexVars, fundus_images, numfun,
                   assembleVars, floatVars>>

\* chunk.type == 1073741824 and any other chunk.ind
DispatchUnrecognised ==
    /\ AtChunk
    /\ Here.type = ImageType
    /\ Here.ind \notin {0, 1}
    /\ chunk' = Here
    /\ Proceed(<< <<"unrecognised chunk", VolumeString(Here)>> >>)
    /\ UNCHANGED <<selfVars, walkVars, indexVars, dispatchVars, assembleVars,
                   floatVars>>

\* any other chunk.type
DispatchSkip ==
    /\ AtChunk
    /\ Here.type # ImageType
    /\ ~(imagetype = FAF /\ Here.type = LateralityType)
    /\ chunk' = Here
    /\ Proceed(<<>>)
    /\ UNCHANGED <<selfVars, walkVars, indexVars, dispatchVars, assembleVars,
                   floatVars>>

\* chunk_stack is exhausted: oct_volumes = []
DispatchDone ==
    /\ pc = "dispatch"
    /\ ci > Len(chunk_stack)
    /\ pc' = "assemble"
    /\ oct_volumes' = <<>>
    /\ ai' = 1
    /\ UNCHANGED <<outcome, selfVars, walkVars, indexVars, chunk, dispatchVars, ci,
                   log, floatVars>>

(* ------------------------------ assembly ------------------------------ *)
\* OCTVolumeWithMetaData(volume=..., laterality=..., patient_id=...)
OCTVolumeWithMetaData(volume, lat, key) ==
    [volume |-> volume, laterality |-> lat, patient_id |-> key]

\* `lat, vol = slot` succeeds: a pair, or an array of exactly two rows
Unpacks(slot) == slot.kind = "pair" \/ (slot.kind # "placeholder" /\ slot.rows = 2)

\* lines 243-244 for one slot
Unpacked(slot, key) ==
    IF slot.kind = "pair"
    THEN OCTVolumeWithMetaData(<<Raster("fundus", slot.src, slot.rows)>>, slot.lat, key)
    ELSE OCTVolumeWithMetaData(<<Raster("row 1", slot.src, 1)>>, "row 0", key)

\* the slots `for lat, vol in volume` gets through before the first one that
\* does not unpack
RECURSIVE Iterated(_, _)
Iterated(volume, i) ==
    IF i > Len(volume) \/ ~Unpacks(volume[i]) THEN i - 1 ELSE Iterated(volume, i + 1)

AtVolume == pc = "assemble" /\ ai <= Len(volume_array_dict)

\* lines 249-251: one volume, with the laterality of its fundus image
AssembleVolume ==
    /\ AtVolume
    /\ imagetype # FAF
    /\ LET key == volume_array_dict[ai][1]
           volume == volume_array_dict[ai][2]
       IN
       IF key \in Keys(fundus_images)
       THEN /\ oct_volumes' = Append(oct_volumes,
                 OCTVolumeWithMetaData(volume, Get(fundus_images, key).lat, key))
            /\ ai' = ai + 1
            /\ UNCHANGED <<pc, outcome>>
       ELSE \* fundus_images[key] raises
            /\ outcome' = "KeyError"
            /\ pc' = "done"
            /\ UNCHANGED <<oct_volumes, ai>>
    /\ UNCHANGED <<selfVars, walkVars, indexVars, chunk, dispatchVars, ci, log,
                   floatVars>>

\* lines 242-247: one single-slice volume per slot, until a slot does not unpack
AssembleSlots ==
    /\ AtVolume
    /\ imagetype = FAF
    /\ LET key == volume_array_dict[ai][1]
           volume == volume_array_dict[ai][2]
           n == Iterated(volume, 1)
       IN
       /\ oct_volumes' = oct_volumes \o [i \in 1..n |-> Unpacked(volume[i], key)]
       /\ log' = IF n < Len(volume)
                 THEN Append(log, <<"volume not iteratable", key>>)
                 ELSE log
    /\ ai' = ai + 1
    /\ UNCHANGED <<pc, outcome, selfVars, walkVars, indexVars, chunk, dispatchVars,
                   ci, floatVars>>

\* return oct_volumes, fundus_images
Return ==
    /\ pc = "assemble"
    /\ ai > Len(volume_array_dict)
    /\ outcome' = "returned oct_volumes, fundus_images"
    /\ pc' = "done"
    /\ UNCHANGED <<selfVars, walkVars, indexVars, chunk, dispatchVars, ci,
                   assembleVars, log, floatVars>>

Next ==
    \/ Walk \/ WalkDone
    \/ IndexBlock \/ IndexEntry \/ BlockDone \/ IndexDone
    \/ Prepass \/ PrepassDone
    \/ InitArrays
    \/ DispatchLaterality \/ DispatchFundus \/ DispatchOct
    \/ DispatchUnrecognised \/ DispatchSkip \/ DispatchDone
    \/ AssembleVolume \/ AssembleSlots \/ Return

Spec == Init /\ [][Next]_vars

(* -------------------------- read_custom_float ------------------------- *)
Bytes == 0..255

\* bin(b)[2:].zfill(8): the 8 binary digits of b, most significant first
Bin8(b) == [i \in 1..8 |-> (b \div 2^(8 - i)) % 2]

\* s[::-1]
Reversed(s) == [i \in 1..Len(s) |-> s[Len(s) + 1 - i]]

\* int(s, 2)
RECURSIVE IntBase2(_)
IntBase2(s) ==
    IF Len(s) = 0 THEN 0 ELSE 2 * IntBase2(SubSeq(s, 1, Len(s) - 1)) + s[Len(s)]

\* A variant of line 277 that reads the exponent bits without reversing them;
\* C6_CustomFloat tells the two apart.
read_custom_float_unreversed(b) ==
    LET bits == Reversed(Bin8(b[1])) \o Reversed(Bin8(b[2]))
        mantissa == SubSeq(bits, 1, MantissaBits)
        exponent == SubSeq(bits, MantissaBits + 1, 16)
    IN [mantissa_sum |-> 2^MantissaBits + IntBase2(mantissa),
        exponent_sum |-> IntBase2(exponent) - ExponentBias]

\* The value returned is mantissa_sum * 2^exponent_sum, a product the float
\* arithmetic of the code computes exactly; it is kept as its two factors,
\* mantissa_sum in units of 1 / 2^10.
read_custom_float(b) ==
    LET power == 2^MantissaBits
        bits == Reversed(Bin8(b[1])) \o Reversed(Bin8(b[2]))
        mantissa == SubSeq(bits, 1, MantissaBits)
        exponent == SubSeq(bits, MantissaBits + 1, 16)
    IN [mantissa_sum |-> power + IntBase2(mantissa),
        exponent_sum |-> IntBase2(Reversed(exponent)) - ExponentBias]

\* a call of read_custom_float on any two bytes
InitFloat ==
    /\ imagetype = ""
    /\ laterality = "None"
    /\ pc = "float"
    /\ outcome = "running"
    /\ current = 0
    /\ directory_stack = <<>>
    /\ position = 1
    /\ num_entries = 0
    /\ ii = 0
    /\ chunk = NoChunk
    /\ chunk_stack = <<>>
    /\ volume_dict = <<>>
    /\ volume_array_dict = <<>>
    /\ fundus_images = <<>>
    /\ numfun = 0
    /\ ci = 1
    /\ oct_volumes = <<>>
    /\ ai = 1
    /\ log = <<>>
    /\ bytes \in Bytes \X Bytes
    /\ decimal_value = [mantissa_sum |-> 0, exponent_sum |-> 0]

CustomFloat ==
    /\ pc = "float"
    /\ decimal_value' = read_custom_float(bytes)
    /\ pc' = "float done"
    /\ UNCHANGED <<outcome, selfVars, walkVars, indexVars, chunk, dispatchVars, ci,
                   assembleVars, log, bytes>>

NextFloat == CustomFloat

FloatSpec == InitFloat /\ [][NextFloat]_vars

(* ======================= properties of the reader ===================== *)
\* the chunk the i-th element of chunk_stack points at
At(i) == ChunkFile[chunk_stack[i][1]]

InOrAfterDispatch == pc \in {"dispatch", "assemble", "done"}

\* iterations of the dispatch loop that ran to their end
Completed == IF InOrAfterDispatch THEN ci - 1 ELSE 0

\* the call ended inside the iteration of the dispatch loop at ci
LeftAtChunk == pc = "done" /\ ci <= Len(chunk_stack)

\* iterations of the dispatch loop entered, the one the call ended in included
Reached == IF LeftAtChunk THEN ci ELSE Completed

IsFundus(c) == c.type = ImageType /\ c.ind = 0
IsOct(c) == c.type = ImageType /\ c.ind = 1
Known(c) == VolumeString(c) \in Keys(volume_array_dict)
ArrayOf(c) == Get(volume_array_dict, VolumeString(c))
WholeFundus(c) == IsFundus(c) /\ ~FundusCutShort(c)
Returned == outcome = "returned oct_volumes, fundus_images"

\* ---------------------------------------------------------------- C1 ----
\* one directory block in the chain; its live entries, of one volume and with
\* largest slice_id 4, point at the B-scan of slice 2 and the B-scan of slice 4
RoundTripContainer ==
    /\ Len(directory_stack) = 1
    /\ Len(chunk_stack) = 2
    /\ chunk_stack[1][1] = 1
    /\ chunk_stack[2][1] = 2
    /\ volume_dict = << <<VolumeString(ChunkFile[1]), 4>> >>

\* C1: for the round-trip container (one directory block, two live entries of
\* one volume with slice_ids up to 4, the two B-scans of slice 2 and 4) the
\* call returns exactly one volume, whose slice array has 2 slots, both
\* holding decoded rasters.
C1_RoundTrip ==
    (pc = "done" /\ RoundTripContainer) =>
        /\ Returned
        /\ Len(oct_volumes) = 1
        /\ Len(oct_volumes[1].volume) = 2
        /\ oct_volumes[1].volume[1].kind = "oct"
        /\ oct_volumes[1].volume[2].kind = "oct"

\* ---------------------------------------------------------------- C2 ----
\* C2: the chain walk terminates for every container, a cycle being caught by
\* a bound on the chain length: no offset is recorded twice, so the chain is
\* never longer than the number of directory blocks.  (The walk is a function
\* of the offset it is at: once it records an offset a second time it repeats
\* itself for ever.)
C2_WalkTerminates ==
    /\ Len(directory_stack) <= NBlocks
    /\ \A i, j \in 1..Len(directory_stack) :
          i # j => directory_stack[i] # directory_stack[j]

\* ---------------------------------------------------------------- C3 ----
\* C3: whenever a raster has been placed in a slice array, the slice_id of
\* its chunk is even and slice_id/2 - 1 lies in [0, length of the array).
C3_SliceIndexInRange ==
    \A i \in 1..Completed :
        ((IsFundus(At(i)) \/ IsOct(At(i))) /\ Known(At(i))) =>
            /\ At(i).slice_id % 2 = 0
            /\ 0 <= (At(i).slice_id \div 2) - 1
            /\ (At(i).slice_id \div 2) - 1 < Len(ArrayOf(At(i)))

\* ---------------------------------------------------------------- C4 ----
\* C4: in the "Fundus Autofluorescence" mode, after a laterality chunk the
\* laterality is 'R' for byte 82, 'L' for byte 76 and None for any other
\* byte, whatever the laterality chunks before it.
C4_LateralityFromByte ==
    (imagetype = FAF /\ pc \in {"dispatch", "assemble"} /\ Completed >= 1
       /\ At(Completed).type = LateralityType) =>
        laterality = IF At(Completed).laterality = ByteR THEN "R"
                     ELSE IF At(Completed).laterality = ByteL THEN "L"
                     ELSE "None"

\* ---------------------------------------------------------------- C5 ----
CutShort(c) ==
    \/ IsFundus(c) /\ FundusCutShort(c)
    \/ IsOct(c) /\ OctCutShort(c)

\* C5: a call that met an image chunk whose pixels are cut short (a fundus
\* image or a B-scan) does not fail: it stops there and returns (volumes,
\* reference images), as a complete pass does.
C5_PartialResult == (LeftAtChunk /\ CutShort(At(ci))) => Returned

\* ---------------------------------------------------------------- C7 ----
\* the i-th volume never received image data
Unfilled(i) ==
    /\ \A k \in 1..Len(volume_array_dict[i][2]) :
          volume_array_dict[i][2][k] = Placeholder
    /\ volume_array_dict[i][1] \notin Keys(fundus_images)

Volumes == 1..Len(volume_array_dict)

\* C7: in either mode a volume whose array holds only placeholders and that
\* has no reference image is left out of the output with a warning, and the
\* call returns; in the normal mode the output holds the other volumes, one
\* each.  (Stated for passes in which every other volume of the normal mode
\* has its reference image.)
C7_UnfilledVolumeOmitted ==
    (/\ pc = "done"
     /\ ci > Len(chunk_stack)
     /\ \E i \in Volumes : Unfilled(i)
     /\ \A i \in Volumes :
           Unfilled(i) \/ imagetype = FAF
              \/ volume_array_dict[i][1] \in Keys(fundus_images))
    => /\ Returned
       /\ \A i \in Volumes :
             Unfilled(i) =>
                /\ \A k \in 1..Len(oct_volumes) :
                      oct_volumes[k].patient_id # volume_array_dict[i][1]
                /\ \E k \in 1..Len(log) :
                      log[k] = <<"volume not iteratable", volume_array_dict[i][1]>>
       /\ imagetype # FAF =>
             Len(oct_volumes) = Cardinality({i \in Volumes : ~Unfilled(i)})

\* ---------------------------------------------------------------- C8 ----
\* C8: in the "Fundus Autofluorescence" mode every fundus image chunk the
\* dispatch loop gets to adds one pair to the reference images, and the loop
\* goes on after it.
C8_FundusImagesAppended ==
    (imagetype = FAF /\ InOrAfterDispatch) =>
        /\ Len(fundus_images) =
              Cardinality({i \in 1..Reached : WholeFundus(At(i))})
        /\ ~(LeftAtChunk /\ WholeFundus(At(ci)))

\* ---------------------------------------------------------------- C9 ----
\* one step of the call, as C9 has it
C9_Step ==
    /\ (pc = "entries" /\ ii' = ii + 1) =>
          chunk_stack' = IF chunk'.start > chunk'.pos
                         THEN chunk_stack \o << <<chunk'.start, chunk'.size>> >>
                         ELSE chunk_stack
    /\ ~(pc = "entries" /\ ii' = ii + 1) => chunk_stack' = chunk_stack
    /\ (pc \in {"prepass", "dispatch"} /\ ci <= Len(chunk_stack)) =>
          /\ chunk' = ChunkFile[chunk_stack[ci][1]]
          /\ ci' = ci + 1 \/ (ci' = ci /\ pc' = "done")
    /\ (pc = "dispatch" /\ pc' = "assemble") => ci = Len(chunk_stack) + 1

\* C9: in both modes a directory entry adds (start, size) to chunk_stack
\* exactly when its start > pos, at the end of the list, and nothing else
\* changes the list; the pre-pass and the dispatch loop read the chunks of the
\* list in its order, one per iteration.
C9_ChunkStack == [][C9_Step]_vars

\* a superseded entry of a second block has been read and left the list alone
C9_Witness ==
    /\ pc = "entries"
    /\ position = 2
    /\ ii = 2
    /\ chunk.start = chunk.pos
    /\ Len(chunk_stack) = 2

\* --------------------------------------------------------------- C10 ----
\* fundus images among the first n chunks of the dispatch loop
FundusBefore(n) == Cardinality({j \in 1..n : WholeFundus(At(j))})
\* those of them whose volume has a slice array
KnownFundusBefore(n) ==
    Cardinality({j \in 1..n : WholeFundus(At(j)) /\ Known(At(j))})

\* the fundus image of a volume with a slice array that was stored last
LastStored(i) ==
    /\ i \in 1..Reached
    /\ WholeFundus(At(i))
    /\ Known(At(i))
    /\ \A j \in (i + 1)..Reached :
          ~(WholeFundus(At(j)) /\ VolumeString(At(j)) = VolumeString(At(i)))

Tagged(i, lat) ==
    /\ Get(fundus_images, VolumeString(At(i))).lat = lat
    /\ Get(fundus_images, VolumeString(At(i))).src = chunk_stack[i][1]
    /\ (i = Completed) =>
          \E k \in 1..Len(ArrayOf(At(i))) :
              ArrayOf(At(i))[k] = Get(fundus_images, VolumeString(At(i)))

Bit(b, i) == (b \div 2^i) % 2
\* bit k of the 16-bit field: the bits of b0, then those of b1
FieldBit(b, k) == IF k < 8 THEN Bit(b[1], k) ELSE Bit(b[2], k - 8)

RECURSIVE Sum(_, _, _)
Sum(f(_), lo, hi) == IF lo > hi THEN 0 ELSE f(lo) + Sum(f, lo + 1, hi)

\* the first 10 bits of the field, the first the most significant
MantissaOf(b) == LET term(k) == FieldBit(b, k) * 2^(9 - k) IN Sum(term, 0, 9)
\* the last 6 bits of the field, the last the most significant
ExponentOf(b) == LET term(k) == FieldBit(b, k) * 2^(k - 10) IN Sum(term, 10, 15)

\* C6: read_custom_float(b0, b1) = (1 + m/1024) * 2^(e - 63), m the first 10
\* bits of the field and e its last 6 bits reversed; 0x00 0x00 gives 2^-63,
\* and m = 1023 with e - 63 = 0 gives 1 + 1023/1024.
C6_CustomFloat ==
    pc = "float done" =>
        /\ decimal_value = [mantissa_sum |-> 1024 + MantissaOf(bytes),
                            exponent_sum |-> ExponentOf(bytes) - 63]
        /\ bytes = <<0, 0>> =>
              decimal_value = [mantissa_sum |-> 1024, exponent_sum |-> -63]
        /\ (MantissaOf(bytes) = 1023 /\ ExponentOf(bytes) = 63) =>
              decimal_value = [mantissa_sum |-> 2047, exponent_sum |-> 0]

\* a value whose exponent bits are not a palindrome has been decoded
C6_Witness ==
    /\ pc = "float done"
    /\ bytes = <<1, 4>>
    /\ decimal_value = [mantissa_sum |-> 1024 + 512, exponent_sum |-> 1 - 63]

====
